---------------------------- MODULE Spec2Model ----------------------------
(***************************************************************************)
(* xcheck: the file-system consistency checker of                          *)
(* filesystems-checker/xcheck.c, as a state machine.                       *)
(*                                                                         *)
(* The image is the input: it is chosen in Init and never changes.  One    *)
(* action is one step of main, recurse_dir or process_file: a loop         *)
(* iteration with everything it calls.  The recursion of recurse_dir and   *)
(* the call of process_file are an explicit stack of frames.  Sizes are    *)
(* scaled down: a block has BSIZEW 32-bit words, an inode NDIRECT direct   *)
(* addresses; every size of fs.h is derived from these two as fs.h derives *)
(* it from BSIZE and NDIRECT.                                              *)
(***************************************************************************)
EXTENDS Integers, Sequences, FiniteSets, TLC

VARIABLES img, pc, status, out, sb, bmapblocks, ninodes, iblocks, nmeta,
          nblocks, bmapstart, inode_refs, block_refs, stack, scan_i, bmap_i

vars == <<img, pc, status, out, sb, bmapblocks, ninodes, iblocks, nmeta,
          nblocks, bmapstart, inode_refs, block_refs, stack, scan_i, bmap_i>>

-----------------------------------------------------------------------------
(* Bounds of the model. *)

\* words (uint) in a block: BSIZE / sizeof(uint); 128 in fs.h
BSIZEW == 12
\* direct addresses of an inode; 12 in fs.h
NDIRECT == 2
\* inodes of the generated images (sb.ninodes)
NInodes == 4
\* data blocks of the generated images
NData == 4
\* log blocks of the generated images (sb.nlog)
NLog == 1
\* largest superblock inode count of the layout specification
MaxLayoutInodes == 9
\* largest superblock log size of the layout specification
MaxLayoutLog == 2

-----------------------------------------------------------------------------
(* Program constants. *)

T_DIR == 1
T_FILE == 2
T_DEV == 3

\* sizeof(uint)
WordBytes == 4
\* sizeof(struct dirent) / sizeof(uint): ushort inum; char name[14]
DirentWords == 4
\* '.'
CharDot == 46
\* a name that is neither "." nor ".."
CharA == 97

\* the range of ushort
Uint16 == 256 * 256

BSIZE == BSIZEW * WordBytes
\* sizeof(struct dinode) in words: type, major, minor, nlink (4 shorts),
\* size, addrs[NDIRECT+1]
DinodeWords == NDIRECT + 4
IPB == BSIZEW \div DinodeWords
BPB == BSIZE * 8
NINDIRECT == BSIZEW
\* maxidx = BSIZE / sizeof(struct dirent)
maxidx == BSIZEW \div DirentWords

-----------------------------------------------------------------------------
(* The layout computation of main.  The superblocks of the model are far   *)
(* from the range of uint: no sum below wraps.                             *)

BmapBlocksOf(size) == size \div BPB + 1

\* faulty variant: the inode blocks rounded up
IBlocksOf_ceil(n) == (n + IPB - 1) \div IPB

IBlocksOf(n) == n \div IPB + 1

NMetaOf(nlog, ib, bb) == 2 + nlog + ib + bb

\* uint check_bp(uint bp)
check_bp(bp) == bp >= nmeta /\ bp < sb.nblocks

-----------------------------------------------------------------------------
(* The image file: what fopen, fseek and fread give.                       *)
(*   argc     the number of arguments of the command line, xcheck included *)
(*   open     whether fopen succeeds                                       *)
(*   fblocks  the number of whole blocks of the file                       *)
(*   words    the blocks read as arrays of uint (directory blocks,         *)
(*            indirect blocks, the boot block, the superblock)             *)
(*   itab     the inode blocks, each IPB inode records                     *)
(*   bmap     the bitmap blocks, each the bytes before its trailing zeros  *)

\* the little-endian bytes of a uint
Bytes(w) ==
    << w % 256, (w \div 256) % 256, (w \div Uint16) % 256,
       (w \div (Uint16 * 256)) % 256 >>

\* void rdirent(uint ent, void *buf, struct dirent *ep): buf is an array of
\* words; the entry is ushort inum followed by char name[14]
rdirent(ent, buf) ==
    LET w0 == buf[DirentWords * ent + 1]
        w1 == buf[DirentWords * ent + 2]
        w2 == buf[DirentWords * ent + 3]
        w3 == buf[DirentWords * ent + 4]
    IN  [ inum |-> w0 % Uint16,
          name |-> SubSeq(Bytes(w0), 3, 4) \o Bytes(w1) \o Bytes(w2)
                       \o Bytes(w3) ]

\* strcmp(name, lit) == 0 for a literal shorter than the name field
StrEq(name, lit) ==
    /\ \A k \in 1..Len(lit) : name[k] = lit[k]
    /\ name[Len(lit) + 1] = 0

\* fseek + fread of block num: fails past the end of the file
CanRead(num) == num < img.fblocks

\* IBLOCK(inum, sb)
IBLOCK(inum) == inum \div IPB + sb.inodestart

\* void rinode(uint inum, struct dinode *ip), once the block is read
rinode(inum) == img.itab[IBLOCK(inum)][(inum % IPB) + 1]

\* buf[k] of a bitmap block: the image holds the bytes of the block to its
\* last byte that is not zero
BlockByte(buf, k) == IF k + 1 \in DOMAIN buf THEN buf[k + 1] ELSE 0

\* uint bmapval(uint num), once the block is read
bmapval(num) ==
    LET blk == (num \div 8) \div BSIZE
        bit == num - (BSIZE * 8 * blk)
        byte == BlockByte(img.bmap[blk + bmapstart], bit \div 8)
    IN  (byte \div (2 ^ (bit % 8))) % 2

-----------------------------------------------------------------------------
(* The images checked: a well-formed image of NInodes inodes and NData     *)
(* data blocks, laid out as main lays it out, with its fields varied.      *)
(* Inode 1 is the root, inodes 2 and 3 vary, the others are free.          *)

GenIBlocks == IBlocksOf(NInodes)
GenNMeta == 2 + NLog + GenIBlocks + 1
GenSize == GenNMeta + NData
GenInodeStart == 2 + NLog
GenBmapStart == 2 + NLog + GenIBlocks

\* a symbolic address: null, the superblock, a data block, the last block
\* of the file, the first block past the end of the file
Addr(a) ==
    CASE a = "Z" -> 0
      [] a = "L" -> 1
      [] a = "H" -> GenSize - 1
      [] a = "X" -> GenSize
      [] a = "D0" -> GenNMeta
      [] a = "D1" -> GenNMeta + 1
      [] a = "D2" -> GenNMeta + 2
      [] a = "D3" -> GenNMeta + 3

ZeroWords == [k \in 1..BSIZEW |-> 0]

\* a directory entry as the words of struct dirent
DirentW(inum, chars) ==
    << inum + Uint16 * (chars[1] + 256 * chars[2]), chars[3], 0, 0 >>

NameDot == << CharDot, 0, 0 >>
NameDotDot == << CharDot, CharDot, 0 >>
NameA == << CharA, 0, 0 >>

\* a block of up to maxidx directory entries
DirBlockW(ents) ==
    [k \in 1..BSIZEW |->
        LET e == (k - 1) \div DirentWords
            j == ((k - 1) % DirentWords) + 1
        IN  IF e < Len(ents) THEN ents[e + 1][j] ELSE 0]

\* a block whose first words are the given ones
WordsW(ws) == [k \in 1..BSIZEW |-> IF k <= Len(ws) THEN ws[k] ELSE 0]

AddrsOf(a0, a1, ai) ==
    [k \in 1..(NDIRECT + 1) |->
        IF k = 1 THEN Addr(a0)
        ELSE IF k = 2 THEN Addr(a1)
        ELSE IF k = NDIRECT + 1 THEN Addr(ai)
        ELSE 0]

FreeInode == [type |-> 0, nlink |-> 0, addrs |-> [k \in 1..(NDIRECT + 1) |-> 0]]

\* the inode table of the image with parameters p
GenInode(p, n) ==
    CASE n = 1 -> [type |-> p.t1, nlink |-> 1, addrs |-> AddrsOf(p.rA0, p.rA1, "Z")]
      [] n = 2 -> IF p.t2 = 0 THEN FreeInode
                  ELSE [type |-> p.t2, nlink |-> p.l2,
                        addrs |-> AddrsOf(p.a20, p.a21, p.a2i)]
      [] n = 3 -> IF p.t3 = 0 THEN FreeInode
                  ELSE [type |-> p.t3, nlink |-> 1,
                        addrs |-> AddrsOf(p.a30, "Z", "Z")]
      [] OTHER -> FreeInode

\* the blocks the live inodes of the image declare
GenDeclared(p) ==
    LET lists == {GenInode(p, n).addrs : n \in 1..(NInodes - 1)}
        direct == UNION {{l[k] : k \in 1..(NDIRECT + 1)} : l \in lists}
        ind == IF p.t2 \in {T_FILE, T_DEV} /\ p.a2i = "D3"
               THEN {Addr(p.i0), Addr(p.i1)} ELSE {}
    IN  (direct \cup ind) \ {0}

\* the blocks whose bit is set in the bitmap of the image
GenUsed(p) ==
    LET exact == (0..(GenNMeta - 1)) \cup GenDeclared(p)
        clr == IF p.clr = "Z" THEN {} ELSE {Addr(p.clr)}
        ext == IF p.ext = "Z" THEN {} ELSE {Addr(p.ext)}
    IN  (exact \ clr) \cup ext

BitmapBytes(used) ==
    [k \in 1..((GenSize \div 8) + 1) |->
        LET b == 8 * (k - 1)
            v(j) == IF (b + j) \in used THEN 2 ^ j ELSE 0
        IN  v(0) + v(1) + v(2) + v(3) + v(4) + v(5) + v(6) + v(7)]

GenSuper(p) ==
    [size |-> GenSize, nblocks |-> GenSize - p.short, ninodes |-> NInodes,
     nlog |-> NLog, logstart |-> 2, inodestart |-> GenInodeStart,
     bmapstart |-> GenBmapStart]

MkImage(p) ==
    [ argc |-> p.argc,
      open |-> p.open,
      fblocks |-> IF p.trunc THEN 0 ELSE GenSize,
      super |-> GenSuper(p),
      itab |-> [b \in GenInodeStart..(GenInodeStart + GenIBlocks - 1) |->
                  [s \in 1..IPB |->
                     LET n == (b - GenInodeStart) * IPB + (s - 1)
                     IN  IF n < NInodes THEN GenInode(p, n) ELSE FreeInode]],
      bmap |-> [b \in {GenBmapStart} |-> BitmapBytes(GenUsed(p))],
      words |-> [b \in {0, 1} \cup (GenNMeta..(GenSize - 1)) |->
          CASE b = 0 -> WordsW(<< 0, 0, 0, 0, p.boot >>)
            [] b = 1 -> WordsW(<< GenSize, GenSize - p.short, NInodes, NLog, 2,
                                  GenInodeStart, GenBmapStart >>)
            [] b = Addr("D0") ->
                 DirBlockW(<< DirentW(1, IF p.dot THEN NameDot ELSE NameA),
                              DirentW(p.par, NameDotDot), DirentW(p.e0, NameA) >>)
            [] b = Addr("D1") ->
                 DirBlockW(<< DirentW(2, NameDot), DirentW(p.p2, NameDotDot),
                              DirentW(p.e1, NameA) >>)
            [] b = Addr("D2") -> DirBlockW(<< DirentW(p.e2, NameA) >>)
            [] b = Addr("D3") -> WordsW(<< Addr(p.i0), Addr(p.i1) >>)
            [] OTHER -> ZeroWords] ]

-----------------------------------------------------------------------------
(* The state after construction: the globals of xcheck.c are zero.         *)

ZeroSuper ==
    [size |-> 0, nblocks |-> 0, ninodes |-> 0, nlog |-> 0, logstart |-> 0,
     inodestart |-> 0, bmapstart |-> 0]

InitGlobals ==
    /\ pc = "start"
    /\ status = "running"
    /\ out = << >>
    /\ sb = ZeroSuper
    /\ bmapblocks = 0 /\ ninodes = 0 /\ iblocks = 0 /\ nmeta = 0
    /\ nblocks = 0 /\ bmapstart = 0
    /\ inode_refs = << >>
    /\ block_refs = << >>
    /\ stack = << >>
    /\ scan_i = 0
    /\ bmap_i = 0

\* printf of a diagnostic followed by exit(1)
Fail(msg) ==
    /\ out' = Append(out, msg)
    /\ status' = "exit1"
    /\ pc' = "done"

\* the process is killed by a signal
Crash ==
    /\ status' = "crash"
    /\ pc' = "done"

\* the number of uint entries of a table of malloc(n * BSIZE) bytes
TableLen(n) == (n * BSIZE) \div WordBytes

\* inode_refs and block_refs hold the entries that were incremented; the
\* other entries of a table are the zeros of memset
ZeroTable == << >>

\* t[k]
Ref(t, k) == IF k \in DOMAIN t THEN t[k] ELSE 0

\* ++t[k]
Incr(t, k) ==
    [j \in DOMAIN t \cup {k} |-> IF j = k THEN Ref(t, k) + 1 ELSE t[j]]

\* main, to the end of the allocation of the tables
ReadSuperblock ==
    /\ pc = "start"
    /\ IF img.argc # 2
       THEN /\ Fail("usage: xcheck <filesystem_image>")
            /\ UNCHANGED <<sb, bmapblocks, ninodes, iblocks, nmeta, nblocks,
                           bmapstart, inode_refs, block_refs>>
       ELSE IF ~img.open
       THEN \* fp is NULL and is passed to fseek: undefined behaviour
            /\ \E o \in {"crash", "seekerr"} :
                 IF o = "crash"
                 THEN /\ out' = Append(out, "invalid image file")
                      /\ Crash
                 ELSE /\ out' = << "invalid image file", "fseek" >>
                      /\ status' = "exit1"
                      /\ pc' = "done"
            /\ UNCHANGED <<sb, bmapblocks, ninodes, iblocks, nmeta, nblocks,
                           bmapstart, inode_refs, block_refs>>
       ELSE LET got == CanRead(1)
                nsb == IF got THEN img.super ELSE sb
                bb == BmapBlocksOf(nsb.size)
                ib == IBlocksOf(nsb.ninodes)
            IN  /\ out' = IF got THEN out
                          ELSE Append(out, "Unable to read superblock")
                /\ sb' = nsb
                /\ bmapblocks' = bb
                /\ ninodes' = nsb.ninodes
                /\ iblocks' = ib
                /\ nmeta' = NMetaOf(nsb.nlog, ib, bb)
                /\ nblocks' = nsb.nblocks
                /\ bmapstart' = nsb.bmapstart
                /\ inode_refs' = ZeroTable
                /\ block_refs' = ZeroTable
                /\ pc' = "root"
                /\ UNCHANGED status
    /\ UNCHANGED <<img, stack, scan_i, bmap_i>>

\* faulty variant: a directory may be named twice
DupDir_late(refs) == refs > 2

\* recurse_dir: a directory named by a second entry
DupDir(refs) == refs > 1

\* a frame of recurse_dir(dir, inum) at its entry
DirFrame(ino, inum) ==
    [fn |-> "dir", ino |-> ino, inum |-> inum, i |-> 0, idx |-> 0, bp |-> 0,
     phase |-> "block"]

\* a frame of process_file(f) at its entry
FileFrame(ino, inum) ==
    [fn |-> "file", ino |-> ino, inum |-> inum, i |-> 0, idx |-> 0, bp |-> 0,
     phase |-> "direct"]

\* the call recurse_dir(&ino, inum) with the frames below it, to the end
\* of the check of its argument
CallDir(below, ino, inum) ==
    IF ino.type # T_DIR
    THEN /\ Fail("Application Error: 'traversedir' called on a non-directory")
         /\ UNCHANGED stack
    ELSE /\ stack' = Append(below, DirFrame(ino, inum))
         /\ pc' = "walk"
         /\ UNCHANGED <<status, out>>

\* the call process_file(&ino) with the frames below it, to the end of
\* the check of its argument
CallFile(below, ino, inum) ==
    IF ino.type # T_FILE /\ ino.type # T_DEV
    THEN /\ Fail("Application Error: non-file inode passed to process_file")
         /\ UNCHANGED stack
    ELSE /\ stack' = Append(below, FileFrame(ino, inum))
         /\ pc' = "walk"
         /\ UNCHANGED <<status, out>>

\* main, from the read of the root inode to the call of recurse_dir
CheckRoot ==
    /\ pc = "root"
    /\ IF ~CanRead(IBLOCK(1))
       THEN Fail("fread") /\ UNCHANGED stack
       ELSE LET root == rinode(1)
            IN  IF root.type # T_DIR
                THEN Fail("root directory does not exist") /\ UNCHANGED stack
                ELSE IF ~CanRead(root.addrs[1])
                THEN Fail("fread") /\ UNCHANGED stack
                ELSE IF rdirent(1, img.words[root.addrs[1]]).inum # 1
                THEN Fail("root directory does not exist") /\ UNCHANGED stack
                ELSE CallDir(<< >>, root, 1)
    /\ UNCHANGED <<img, sb, bmapblocks, ninodes, iblocks, nmeta, nblocks,
                   bmapstart, inode_refs, block_refs, scan_i, bmap_i>>

Top == stack[Len(stack)]

SetTop(f) == [stack EXCEPT ![Len(stack)] = f]

\* return from recurse_dir or process_file; the return of the root's
\* recurse_dir leads main to its scan of the inodes
Return ==
    /\ stack' = SubSeq(stack, 1, Len(stack) - 1)
    /\ IF Len(stack) = 1
       THEN pc' = "scan" /\ scan_i' = 2
       ELSE UNCHANGED <<pc, scan_i>>
    /\ UNCHANGED <<status, out>>

\* recurse_dir: one iteration of the loop over the direct addresses, to the
\* loop over the entries of the block
DirBlock ==
    /\ pc = "walk"
    /\ Top.fn = "dir"
    /\ Top.phase = "block"
    /\ LET f == Top
           bp == IF f.i < NDIRECT THEN f.ino.addrs[f.i + 1] ELSE 0
       IN  IF f.i >= NDIRECT \/ bp = 0
           THEN Return /\ UNCHANGED block_refs
           ELSE IF ~check_bp(bp)
           THEN /\ Fail("bad direct address in inode")
                /\ UNCHANGED <<stack, block_refs, scan_i>>
           ELSE
             /\ block_refs' = Incr(block_refs, bp - nmeta)
             /\ UNCHANGED scan_i
             /\ IF ~CanRead(bp)
                THEN Fail("fread") /\ UNCHANGED stack
                ELSE LET buf == img.words[bp]
                         de0 == rdirent(0, buf)
                         de1 == rdirent(1, buf)
                     IN  IF f.i = 0 /\ (~StrEq(de0.name, << CharDot >>)
                                        \/ de0.inum # f.inum)
                         THEN /\ Fail("directory not properly formatted")
                              /\ UNCHANGED stack
                         ELSE IF f.i = 0 /\ ~StrEq(de1.name, << CharDot, CharDot >>)
                         THEN /\ Fail("directory not properly formatted")
                              /\ UNCHANGED stack
                         ELSE /\ stack' = SetTop([f EXCEPT
                                    !.bp = bp, !.phase = "entries",
                                    !.idx = IF f.i = 0 THEN 2 ELSE 0])
                              /\ UNCHANGED <<pc, status, out>>
    /\ UNCHANGED <<img, sb, bmapblocks, ninodes, iblocks, nmeta, nblocks,
                   bmapstart, inode_refs, bmap_i>>

\* recurse_dir: one iteration of the loop over the entries of a block
DirEntry ==
    /\ pc = "walk"
    /\ Top.fn = "dir"
    /\ Top.phase = "entries"
    /\ LET f == Top
           next == [f EXCEPT !.i = f.i + 1, !.phase = "block"]
       IN  IF f.idx >= maxidx
           THEN /\ stack' = SetTop(next)
                /\ UNCHANGED <<pc, status, out, inode_refs>>
           ELSE
             LET de == rdirent(f.idx, img.words[f.bp])
                 g == [f EXCEPT !.idx = f.idx + 1]
             IN  IF de.inum = 0
                 THEN /\ stack' = SetTop(next)
                      /\ UNCHANGED <<pc, status, out, inode_refs>>
                 ELSE IF ~CanRead(IBLOCK(de.inum))
                 THEN Fail("fread") /\ UNCHANGED <<stack, inode_refs>>
                 ELSE
                   LET cur == rinode(de.inum)
                   IN  IF cur.type < T_DIR \/ cur.type > T_DEV
                       THEN /\ Fail("Invalide inode type")
                            /\ UNCHANGED <<stack, inode_refs>>
                       ELSE
                         /\ inode_refs' = Incr(inode_refs, de.inum)
                         /\ IF cur.type = T_DIR
                            THEN IF DupDir(inode_refs'[de.inum])
                                 THEN /\ Fail("directory appears more than once in file system")
                                      /\ UNCHANGED stack
                                 ELSE CallDir(SetTop(g), cur, de.inum)
                            ELSE CallFile(SetTop(g), cur, de.inum)
    /\ UNCHANGED <<img, sb, bmapblocks, ninodes, iblocks, nmeta, nblocks,
                   bmapstart, block_refs, scan_i, bmap_i>>

\* process_file: one iteration of the loop over the direct addresses
FileDirect ==
    /\ pc = "walk"
    /\ Top.fn = "file"
    /\ Top.phase = "direct"
    /\ LET f == Top
           bp == f.ino.addrs[f.i + 1]
       IN  IF bp = 0
           THEN Return /\ UNCHANGED block_refs
           ELSE IF ~check_bp(bp)
           THEN /\ Fail("bad direct address in inode")
                /\ UNCHANGED <<stack, block_refs, scan_i>>
           ELSE
             /\ block_refs' = Incr(block_refs, bp - nmeta)
             /\ UNCHANGED scan_i
             /\ IF block_refs'[bp - nmeta] > 1
                THEN /\ Fail("direct address used more than once")
                     /\ UNCHANGED stack
                ELSE /\ stack' = SetTop([f EXCEPT
                           !.bp = bp, !.i = f.i + 1,
                           !.phase = IF f.i + 1 < NDIRECT THEN "direct"
                                     ELSE "indirect"])
                     /\ UNCHANGED <<pc, status, out>>
    /\ UNCHANGED <<img, sb, bmapblocks, ninodes, iblocks, nmeta, nblocks,
                   bmapstart, inode_refs, bmap_i>>

\* process_file: from the read of the indirect address to the loop over
\* the entries of the indirect block
FileIndirect ==
    /\ pc = "walk"
    /\ Top.fn = "file"
    /\ Top.phase = "indirect"
    /\ LET f == Top
           ibp == f.ino.addrs[NDIRECT + 1]
           at == ibp - nmeta
       IN  IF ibp = 0
           THEN Return /\ UNCHANGED block_refs
           ELSE IF ~check_bp(f.bp)
           THEN /\ Fail("bad direct address in inode")
                /\ UNCHANGED <<stack, block_refs, scan_i>>
           ELSE
             \E o \in {"crash", "print", "quiet"} :
               \* the count after ++Ref(block_refs, ibp - nmeta); ibp - nmeta
               \* wraps below nmeta, and an index outside the table is
               \* undefined behaviour
               LET inside == ibp >= nmeta /\ at < TableLen(nblocks)
                   refs == IF inside THEN Incr(block_refs, at)
                           ELSE block_refs
                   dup == IF inside THEN refs[at] > 1 ELSE o = "print"
                   said == IF dup
                           THEN Append(out, "direct address used more than once")
                           ELSE out
               IN  /\ inside => o = "quiet"
                   /\ UNCHANGED scan_i
                   /\ IF o = "crash"
                      THEN Crash /\ UNCHANGED <<out, stack, block_refs>>
                      ELSE /\ block_refs' = refs
                           /\ IF ~CanRead(ibp)
                              THEN /\ out' = Append(said, "fread")
                                   /\ status' = "exit1"
                                   /\ pc' = "done"
                                   /\ UNCHANGED stack
                              ELSE /\ out' = said
                                   /\ stack' = SetTop([f EXCEPT
                                         !.i = 0, !.phase = "ientries"])
                                   /\ UNCHANGED <<pc, status>>
    /\ UNCHANGED <<img, sb, bmapblocks, ninodes, iblocks, nmeta, nblocks,
                   bmapstart, inode_refs, bmap_i>>

\* process_file: one iteration of the loop over the entries of the
\* indirect block
FileIndirectEntry ==
    /\ pc = "walk"
    /\ Top.fn = "file"
    /\ Top.phase = "ientries"
    /\ LET f == Top
           ibp == f.ino.addrs[NDIRECT + 1]
           bpi == IF f.i < NINDIRECT THEN img.words[ibp][f.i + 1] ELSE 0
       IN  IF f.i >= NINDIRECT \/ bpi = 0
           THEN Return /\ UNCHANGED block_refs
           ELSE IF ~check_bp(bpi)
           THEN /\ Fail("bad indirect address in inode")
                /\ UNCHANGED <<stack, block_refs, scan_i>>
           ELSE
             /\ block_refs' = Incr(block_refs, bpi - nmeta)
             /\ UNCHANGED scan_i
             /\ IF block_refs'[bpi - nmeta] > 1
                THEN /\ Fail("indirect address used more than once")
                     /\ UNCHANGED stack
                ELSE /\ stack' = SetTop([f EXCEPT !.i = f.i + 1])
                     /\ UNCHANGED <<pc, status, out>>
    /\ UNCHANGED <<img, sb, bmapblocks, ninodes, iblocks, nmeta, nblocks,
                   bmapstart, inode_refs, bmap_i>>

\* main: the loop over the addresses of an inode in the scan of the
\* inodes, from index k: "fail" at an address the bitmap marks free,
\* "warn" when only the indirect address is marked free, else "ok"
RECURSIVE ScanAddrs(_, _)
ScanAddrs(ino, k) ==
    IF k >= NDIRECT THEN "ok"
    ELSE IF ino.addrs[k + 1] = 0 THEN "ok"
    ELSE IF bmapval(ino.addrs[k + 1]) = 0 THEN "fail"
    ELSE IF k = NDIRECT - 1
    THEN IF ino.addrs[NDIRECT + 1] = 0 THEN "ok"
         ELSE IF bmapval(ino.addrs[NDIRECT + 1]) = 0 THEN "warn"
         ELSE "ok"
    ELSE ScanAddrs(ino, k + 1)

\* faulty variant: only a link count below the number of entries is reported
LinkCountBad_low(inode, refs) == inode.nlink < refs

\* main: the link count of an inode against the entries that name it
LinkCountBad(inode, refs) == inode.nlink # refs

\* main: one iteration of the loop over the inodes
ScanInode ==
    /\ pc = "scan"
    /\ IF scan_i >= ninodes
       THEN /\ pc' = "bitmap"
            /\ bmap_i' = nmeta
            /\ UNCHANGED <<status, out, scan_i>>
       ELSE
         /\ UNCHANGED bmap_i
         /\ IF ~CanRead(IBLOCK(scan_i))
            THEN Fail("fread") /\ UNCHANGED scan_i
            ELSE
              LET inode == rinode(scan_i)
                  refs == Ref(inode_refs, scan_i)
                  go == /\ scan_i' = scan_i + 1
                        /\ UNCHANGED <<pc, status>>
              IN  IF inode.type = 0
                  THEN IF refs # 0
                       THEN /\ Fail("inode referred to in directory but marked free")
                            /\ UNCHANGED scan_i
                       ELSE go /\ UNCHANGED out
                  ELSE IF inode.type < T_DIR \/ inode.type > T_DEV
                  THEN Fail("bad inode") /\ UNCHANGED scan_i
                  ELSE IF refs = 0
                  THEN /\ Fail("inode marked use but not found in a directory")
                       /\ UNCHANGED scan_i
                  ELSE IF inode.type = T_DIR /\ refs > 1
                  THEN /\ Fail("directory appears more than once in file system")
                       /\ UNCHANGED scan_i
                  ELSE IF LinkCountBad(inode, refs)
                  THEN /\ Fail("bad reference count for file")
                       /\ UNCHANGED scan_i
                  ELSE
                    LET r == ScanAddrs(inode, 0)
                    IN  IF r = "fail"
                        THEN /\ Fail("address used by inode but marked free in bitmap")
                             /\ UNCHANGED scan_i
                        ELSE /\ go
                             /\ out' = IF r = "warn"
                                       THEN Append(out, "address used by inode but marked free in bitmap")
                                       ELSE out
    /\ UNCHANGED <<img, sb, bmapblocks, ninodes, iblocks, nmeta, nblocks,
                   bmapstart, inode_refs, block_refs, stack>>

\* main: a block the bitmap marks in use and no inode refers to
UsedButFree(i) == bmapval(i) # 0 /\ Ref(block_refs, i - nmeta) = 0

\* faulty variant: the loop over the bitmap stops one block early
BitmapDone_early(i) == i + 1 >= nblocks

\* main: the end of the loop over the bitmap
BitmapDone(i) == i >= nblocks

\* main: one iteration of the loop over the bitmap
BitmapScan ==
    /\ pc = "bitmap"
    /\ IF BitmapDone(bmap_i)
       THEN /\ pc' = "finish"
            /\ UNCHANGED <<status, out, bmap_i>>
       ELSE IF UsedButFree(bmap_i)
       THEN /\ Fail("bitmap marks block in use but it is not in use")
            /\ UNCHANGED bmap_i
       ELSE /\ bmap_i' = bmap_i + 1
            /\ UNCHANGED <<pc, status, out>>
    /\ UNCHANGED <<img, sb, bmapblocks, ninodes, iblocks, nmeta, nblocks,
                   bmapstart, inode_refs, block_refs, stack, scan_i>>

\* main: fclose and return 0
Finish ==
    /\ pc = "finish"
    /\ pc' = "done"
    /\ status' = "exit0"
    /\ UNCHANGED <<img, out, sb, bmapblocks, ninodes, iblocks, nmeta, nblocks,
                   bmapstart, inode_refs, block_refs, stack, scan_i, bmap_i>>

Next ==
    \/ ReadSuperblock
    \/ CheckRoot
    \/ DirBlock
    \/ DirEntry
    \/ FileDirect
    \/ FileIndirect
    \/ FileIndirectEntry
    \/ ScanInode
    \/ BitmapScan
    \/ Finish

-----------------------------------------------------------------------------
(* The images of the specification. *)

\* a consistent image: the root holds one file of one block
Base ==
    [argc |-> 2, open |-> TRUE, trunc |-> FALSE, short |-> 0, t1 |-> T_DIR,
     rA0 |-> "D0", rA1 |-> "Z", boot |-> 0, dot |-> TRUE, par |-> 1,
     e0 |-> 2, t2 |-> T_FILE, l2 |-> 1, a20 |-> "D1", a21 |-> "Z", a2i |-> "Z", p2 |-> 1,
     e1 |-> 0, t3 |-> 0, a30 |-> "Z", e2 |-> 0, i0 |-> "Z", i1 |-> "Z",
     clr |-> "Z", ext |-> "Z"]

\* no image named, an image that cannot be opened, and an empty file
FamStart ==
    {[Base EXCEPT !.argc = 1], [Base EXCEPT !.open = FALSE],
     [Base EXCEPT !.trunc = TRUE]}

\* the root inode and the first block of the root vary
FamRoot ==
    {[Base EXCEPT !.t1 = t1, !.rA0 = rA0, !.boot = boot, !.dot = dot,
                  !.par = par, !.e0 = e0, !.t2 = t2, !.clr = clr] :
        t1 \in {T_DIR, T_FILE}, rA0 \in {"Z", "D0"}, boot \in {0, 1},
        dot \in BOOLEAN, par \in {1, 2}, e0 \in {0, 1, 2},
        t2 \in {0, T_FILE}, clr \in {"Z", "D0"}}

\* inode 2 is a directory: its entries, its second block and inode 3 vary
FamDir ==
    {[Base EXCEPT !.t2 = T_DIR, !.rA1 = rA1, !.a21 = a21, !.p2 = p2,
                  !.e1 = e1, !.t3 = t3, !.a30 = a30, !.e2 = e2,
                  !.clr = clr, !.ext = ext] :
        rA1 \in {"Z", "D2"}, a21 \in {"Z", "D2"}, p2 \in {0, 1},
        e1 \in 0..3, t3 \in {0, T_FILE, T_DEV, 4}, a30 \in {"Z", "D2"},
        e2 \in {0, 3}, clr \in {"Z", "D2"}, ext \in {"Z", "D3"}}

\* inode 2 is a file: its addresses and its indirect block vary
FamFile ==
    {[Base EXCEPT !.rA1 = rA1, !.l2 = l2, !.a20 = a20, !.a21 = a21,
                  !.a2i = a2i, !.i0 = i0, !.i1 = i1, !.e2 = e2,
                  !.short = short, !.clr = clr] :
        rA1 \in {"Z", "D2"}, l2 \in {1, 2}, a20 \in {"Z", "D1"},
        a21 \in {"Z", "D1", "D2"},
        a2i \in {"Z", "D1", "D3", "L", "H", "X"},
        i0 \in {"Z", "D0", "D2", "L"}, i1 \in {"Z", "D3"}, e2 \in {0, 2},
        short \in {0, 1}, clr \in {"Z", "D1", "D2", "D3"}}

\* the parameters that change nothing of the image are left at their base
Canonical(p) ==
    /\ p.t3 \in {0, 4} => p.a30 = "Z"
    /\ (p.rA1 = "Z" /\ p.a21 # "D2") => p.e2 = 0
    /\ p.a20 = "Z" => (p.a21 = "Z" /\ p.a2i = "Z")
    /\ p.a21 = "Z" => p.a2i \in {"Z", "D3"}
    /\ (p.a2i \notin {"D3", "H"} \/ p.a21 = "Z") => (p.i0 = "Z" /\ p.i1 = "Z")
    /\ p.i0 = "Z" => p.i1 = "Z"

Families == FamStart \cup FamRoot \cup FamDir \cup FamFile

Images == {MkImage(p) : p \in {q \in Families : Canonical(q)}}

Init ==
    /\ img \in Images
    /\ InitGlobals

Spec == Init /\ [][Next]_vars

\* the program is one sequential process: it takes its next step
FairSpec == Spec /\ WF_vars(Next)

-----------------------------------------------------------------------------
(* The layout computation alone, over superblocks of at least one block    *)
(* and one inode.                                                          *)

LayoutSizes ==
    {1, BPB - 1, BPB, BPB + 1, 2 * BPB - 1, 2 * BPB, 2 * BPB + 1}

LayoutImage(size, n, nlog) ==
    [ argc |-> 2, open |-> TRUE, fblocks |-> 2,
      super |-> [size |-> size, nblocks |-> 0, ninodes |-> n, nlog |-> nlog,
                 logstart |-> 2, inodestart |-> 2 + nlog,
                 bmapstart |-> 2 + nlog + IBlocksOf(n)],
      itab |-> << >>, bmap |-> << >>, words |-> << >> ]

InitLayout ==
    /\ img \in {LayoutImage(size, n, nlog) :
                  size \in LayoutSizes, n \in 1..MaxLayoutInodes,
                  nlog \in 0..MaxLayoutLog}
    /\ InitGlobals

NextLayout == ReadSuperblock

SpecLayout == InitLayout /\ [][NextLayout]_vars

-----------------------------------------------------------------------------
(* What the claims speak of. *)

Accepted == status = "exit0"

\* the data region of the range checks
DataRegion == {b \in 0..(sb.nblocks - 1) : check_bp(b)}

LastOut == IF out = << >> THEN "" ELSE out[Len(out)]

\* the inode table as rinode gives it
LiveInodes == {n \in 1..(ninodes - 1) : rinode(n).type # 0}

\* the entries of the indirect block of an inode, to the first zero
IndEntries(ino) ==
    LET ibp == ino.addrs[NDIRECT + 1]
    IN  IF ibp = 0 \/ ibp \notin DOMAIN img.words \/ ~CanRead(ibp) THEN {}
        ELSE {img.words[ibp][k] : k \in
                {j \in 1..NINDIRECT : \A h \in 1..j : img.words[ibp][h] # 0}}

\* every address an inode declares
DeclaredAddrs(ino) ==
    ({ino.addrs[k] : k \in 1..(NDIRECT + 1)} \ {0}) \cup IndEntries(ino)

\* the least k with k * b >= a
Ceil(a, b) == CHOOSE k \in 0..a : k * b >= a /\ (k = 0 \/ (k - 1) * b < a)

\* the entry the walker reads next in the block of the top frame
NextEntry == rdirent(Top.idx, img.words[Top.bp])

AtEntry ==
    /\ pc = "walk"
    /\ Top.fn = "dir"
    /\ Top.phase = "entries"
    /\ Top.idx < maxidx

\* C1: an accepted image has no data block counted more than once
C1_NoBlockCountedTwice ==
    Accepted => \A b \in DataRegion : Ref(block_refs, b - nmeta) <= 1

\* C2: in an accepted image every address declared by a live inode, the
\* root included, has its bitmap bit set
C2_DeclaredMarkedUsed ==
    Accepted =>
      \A n \in LiveInodes : \A a \in DeclaredAddrs(rinode(n)) : bmapval(a) = 1

C4_LinkCountsWithRoot ==
    Accepted =>
      \A n \in LiveInodes :
         (n = 1 \/ Ref(inode_refs, n) >= 1) => Ref(inode_refs, n) = rinode(n).nlink

\* C4 amended: in an accepted image every live inode from 2 to ninodes - 1
\* is named by as many entries as its link count
C4_LinkCounts ==
    Accepted =>
      \A n \in LiveInodes \ {1} : Ref(inode_refs, n) = rinode(n).nlink

C4_Witness ==
    /\ Accepted
    /\ \E n \in LiveInodes \ {1} : Ref(inode_refs, n) = 2 /\ rinode(n).nlink = 2

\* an entry that names a directory already named once ends the run with
\* the duplicate-directory-link violation and without a recursion
C5_CycleEndsRun ==
    [][ (AtEntry /\ NextEntry.inum # 0 /\ NextEntry.inum < ninodes
           /\ rinode(NextEntry.inum).type = T_DIR
           /\ Ref(inode_refs, NextEntry.inum) >= 1)
        => (/\ status' = "exit1"
            /\ out' = Append(out, "directory appears more than once in file system")
            /\ stack' = stack) ]_vars

C6_FailFast ==
    /\ out # << >> => (pc = "done" /\ status = "exit1" /\ Len(out) = 1)
    /\ Accepted => out = << >>

\* C7: the indirect address of a file is checked and counted as a direct
\* address is: out of the data region it ends the run with the
\* bad-block-pointer violation and the table untouched, and counted twice
\* it ends the run with the duplicate-block-use violation
C7_IndirectChecked ==
    [][ (pc = "walk" /\ Top.fn = "file" /\ Top.phase = "indirect"
           /\ Top.ino.addrs[NDIRECT + 1] # 0)
        => LET ibp == Top.ino.addrs[NDIRECT + 1]
           IN  /\ ~check_bp(ibp) =>
                    (/\ status' = "exit1"
                     /\ out' = Append(out, "bad direct address in inode")
                     /\ block_refs' = block_refs)
               /\ (check_bp(ibp) /\ Ref(block_refs, ibp - nmeta) >= 1) =>
                    (/\ status' = "exit1"
                     /\ out' = Append(out, "direct address used more than once")) ]_vars

\* C8: the root of an accepted image is a directory whose first block is
\* in the data region and begins with "." and ".." that name inode 1
C8_RootWellFormed ==
    Accepted =>
      LET root == rinode(1)
          buf == img.words[root.addrs[1]]
      IN  /\ root.type = T_DIR
          /\ check_bp(root.addrs[1])
          /\ StrEq(rdirent(0, buf).name, << CharDot >>)
          /\ rdirent(0, buf).inum = 1
          /\ StrEq(rdirent(1, buf).name, << CharDot, CharDot >>)
          /\ rdirent(1, buf).inum = 1

\* C9: the walker reads no entry of a block after an entry of inode
\* number 0, the ".." entry of a first block included
C9_ZeroEndsBlock ==
    AtEntry => \A j \in 0..(Top.idx - 1) : rdirent(j, img.words[Top.bp]).inum # 0

\* C10 as claimed: the inode blocks and the bitmap blocks are the counts
\* divided by the capacity of a block and rounded up
C10_LayoutCeiling ==
    pc = "root" =>
      /\ iblocks = Ceil(sb.ninodes, IPB)
      /\ bmapblocks = Ceil(sb.size, BPB)
      /\ nmeta = 1 + 1 + sb.nlog + iblocks + bmapblocks

\* C10 amended: the inode blocks and the bitmap blocks are one more than
\* the counts divided by the capacity of a block and rounded down: the
\* rounded-up quotient, and one more when the count is an exact multiple
C10_Layout ==
    pc = "root" =>
      /\ iblocks = Ceil(sb.ninodes, IPB) + (IF sb.ninodes % IPB = 0 THEN 1 ELSE 0)
      /\ bmapblocks = Ceil(sb.size, BPB) + (IF sb.size % BPB = 0 THEN 1 ELSE 0)
      /\ nmeta = 1 + 1 + sb.nlog + iblocks + bmapblocks

C10_Witness ==
    /\ pc = "root"
    /\ sb.ninodes > 0 /\ sb.ninodes % IPB = 0
    /\ sb.size > 0 /\ sb.size % BPB = 0

=============================================================================
